---- MODULE Spec2Model ----
(***************************************************************************)
(* Travel-journal backend: the Post collection and the route handlers of   *)
(* the REST API (create, update, delete, list, tag listing).               *)
(*                                                                         *)
(* Every handler is an async function: it runs to its next await, where    *)
(* other requests' handlers may run.  One action below is one such run:    *)
(* from the request's arrival (or the completion of the awaited call) to   *)
(* the next await or to the response.  Store calls on one document         *)
(* (insert, findById, findByIdAndUpdate, findByIdAndDelete, find,          *)
(* aggregate) are atomic at the store.                                     *)
(***************************************************************************)
EXTENDS Integers, Sequences, FiniteSets, Bags, TLC

\* ------------------------------------------------------------------ bounds
MaxPosts == 2
MaxInFlight == 2
MaxTime == 2

\* ------------------------------------------------------------------ values
\* A missing request field, an undefined local and a null/absent document
\* field: every read of them in the handlers is a truthiness test.
Absent == "<absent>"

BodyUrl == "http://client/a.png"
OtherUrl == "http://client/b.png"
CdnUrl == "https://cdn/travel-journal-app/img.png"

\* Identifiers a request may carry: the ObjectIds the store can assign, and
\* one string that is no ObjectId.
PostIds == 1..MaxPosts
BadId == 0
ReqIds == PostIds \cup {BadId}

\* Tag values in the store's string order.
TagValues == <<"asia", "beach", "temple">>

Rank(t) ==
    CHOOSE i \in 1..Len(TagValues) : TagValues[i] = t

\* Request bodies (multipart fields).  tagsKind tells how the tags field
\* arrived: not at all, as one value, or as a repeated field (an array).
Kyoto ==
    [title |-> "Kyoto", content |-> "temples", imageUrl |-> Absent,
     location |-> "Japan", tagsKind |-> "absent", tags |-> <<>>]

\* The traffic of a run: the request bodies clients send, whether they attach
\* files, and whether the run outlasts a millisecond of the clock.
Loads ==
    { [name |-> "blank title", files |-> {FALSE}, ticks |-> FALSE,
       bodies |-> { Kyoto, [Kyoto EXCEPT !.title = ""] }],
      [name |-> "no title", files |-> {FALSE}, ticks |-> FALSE,
       bodies |-> { Kyoto, [Kyoto EXCEPT !.title = Absent] }],
      [name |-> "blank content", files |-> {FALSE}, ticks |-> FALSE,
       bodies |-> { Kyoto, [Kyoto EXCEPT !.content = ""] }],
      [name |-> "no content", files |-> {FALSE}, ticks |-> FALSE,
       bodies |-> { Kyoto, [Kyoto EXCEPT !.content = Absent] }],
      [name |-> "blank with file", files |-> {TRUE}, ticks |-> FALSE,
       bodies |-> { Kyoto,
                    [Kyoto EXCEPT !.title = ""],
                    [Kyoto EXCEPT !.content = Absent] }],
      [name |-> "files", files |-> BOOLEAN, ticks |-> FALSE,
       bodies |-> { Kyoto }],
      [name |-> "image urls", files |-> {FALSE}, ticks |-> FALSE,
       bodies |-> { Kyoto, [Kyoto EXCEPT !.imageUrl = BodyUrl],
                    [Kyoto EXCEPT !.imageUrl = OtherUrl] }],
      [name |-> "tags", files |-> {FALSE}, ticks |-> FALSE,
       bodies |-> { Kyoto,
                    [Kyoto EXCEPT !.tagsKind = "scalar", !.tags = <<"beach">>],
                    [Kyoto EXCEPT !.tagsKind = "array",
                                  !.tags = <<"temple", "asia", "temple">>] }],
      [name |-> "clock", files |-> {FALSE}, ticks |-> TRUE,
       bodies |-> { Kyoto }] }

NoBody ==
    [title |-> Absent, content |-> Absent, imageUrl |-> Absent,
     location |-> Absent, tagsKind |-> "absent", tags |-> <<>>]

\* ------------------------------------------------------------------ state
VARIABLES
    store,           \* the Post collection: _id -> document
    nextId,          \* the next ObjectId a constructed document gets
    now,             \* the wall clock (Date.now), in milliseconds
    inflight,        \* the handlers suspended at an await (a bag of requests)
    resp,            \* the response being sent, if any
    load             \* the traffic of this run

vars == <<store, nextId, now, inflight, resp, load>>

\* A request and its handler's locals.
NoReq ==
    [kind |-> "none", pc |-> "arrived", id |-> BadId, file |-> FALSE,
     body |-> NoBody, existingUrl |-> Absent, imageUrl |-> Absent,
     at |-> 0, uploads |-> 0]

\* The message of a response that carries no document.
Required == "Title and content are required"
CreateFailed == "Failed to create post"
UpdateFailed == "Failed to update post"
NotFound == "Post not found"
Deleted == "Post deleted successfully"
StoreError == "error.message"

NoResp ==
    [kind |-> "none", status |-> 0, message |-> "", id |-> BadId, file |-> FALSE,
     body |-> NoBody, out |-> <<>>, pre |-> <<>>, existingUrl |-> Absent,
     uploads |-> 0, wrote |-> FALSE]

Init ==
    /\ store = [i \in {} |-> 0]
    /\ nextId = 1
    /\ now = 0
    /\ inflight = EmptyBag
    /\ resp = NoResp
    /\ load \in Loads

\* ------------------------------------------------------------------ values of the language
\* Mutant of Falsy: a test for undefined only, which lets "" through.
FalsyUndefinedOnly(v) ==
    v = Absent

\* JavaScript truthiness of a string-or-undefined value (!v, v || w, v ? a : b).
Falsy(v) ==
    v = Absent \/ v = ""

\* req.body.imageUrl || existingPost.imageUrl
OrElse(v, w) ==
    IF Falsy(v) THEN w ELSE v

\* What the right operand of v || existingPost.imageUrl reads of the looked-up
\* document: its imageUrl, when v is falsy; nothing otherwise.
ExistingUrl(v, existingPost) ==
    IF Falsy(v) THEN existingPost.imageUrl ELSE Absent

\* ------------------------------------------------------------------ schema
\* required: true on a String path: the value must be a non-empty string.
RequiredOk(v) ==
    v # Absent /\ v # ""

\* tags ? (Array.isArray(tags) ? tags : [tags]) : []
NormalizeTags(b) ==
    IF b.tagsKind = "absent" THEN <<>>
    ELSE IF b.tagsKind = "array" THEN b.tags
    ELSE <<b.tags[1]>>

\* new Post({title, content, imageUrl, location, tags}) at clock reading t:
\* the constructor assigns _id and applies the createdAt/updatedAt defaults.
NewPost(id, b, imageUrl, t) ==
    [id |-> id, title |-> b.title, content |-> b.content,
     imageUrl |-> imageUrl, location |-> b.location,
     tags |-> NormalizeTags(b), createdAt |-> t, updatedAt |-> t]

\* The pre('save') hook, run at clock reading t.
PreSave(doc, t) ==
    [doc EXCEPT !.updatedAt = t]

\* Schema validation run by save().
Validate(doc) ==
    RequiredOk(doc.title) /\ RequiredOk(doc.content)

\* ------------------------------------------------------------------ store
Exists(st, i) ==
    i \in DOMAIN st

Insert(st, doc) ==
    [j \in DOMAIN st \cup {doc.id} |-> IF j = doc.id THEN doc ELSE st[j]]

\* Mutant of Remove: a delete whose filter matches every document.
RemoveAll(st, i) ==
    [j \in {} |-> st[j]]

Remove(st, i) ==
    [j \in DOMAIN st \ {i} |-> st[j]]

\* One key of the update document applied to a stored field.  A key whose
\* value is undefined is dropped from the update: the field keeps its value.
SetField(old, new) ==
    IF new = Absent THEN old ELSE new

\* The tags key: an undefined value as above; any other value is cast to an
\* array of strings.
SetTags(old, b) ==
    IF b.tagsKind = "absent" THEN old ELSE b.tags

\* Mutant of ApplyUpdate: the update document also carries createdAt.
ApplyUpdateTouchingCreatedAt(doc, b, imageUrl, t) ==
    [doc EXCEPT !.title = SetField(doc.title, b.title),
                !.content = SetField(doc.content, b.content),
                !.imageUrl = SetField(doc.imageUrl, imageUrl),
                !.location = SetField(doc.location, b.location),
                !.tags = SetTags(doc.tags, b),
                !.createdAt = t,
                !.updatedAt = t]

\* Mutant of ApplyUpdate: imageUrl is replaced like the other fields, by the
\* request body's value, present or not.
ApplyUpdateReplacingImageUrl(doc, b, imageUrl, t) ==
    [doc EXCEPT !.title = SetField(doc.title, b.title),
                !.content = SetField(doc.content, b.content),
                !.imageUrl = b.imageUrl,
                !.location = SetField(doc.location, b.location),
                !.tags = SetTags(doc.tags, b),
                !.updatedAt = t]

\* findByIdAndUpdate(id, {title, content, imageUrl, location, tags,
\* updatedAt}): no validators, no save hook; createdAt is not in the update.
ApplyUpdate(doc, b, imageUrl, t) ==
    [doc EXCEPT !.title = SetField(doc.title, b.title),
                !.content = SetField(doc.content, b.content),
                !.imageUrl = SetField(doc.imageUrl, imageUrl),
                !.location = SetField(doc.location, b.location),
                !.tags = SetTags(doc.tags, b),
                !.updatedAt = t]

\* The orders in which find({}) may scan the collection.
ScanOrders(st) ==
    { f \in [1..Cardinality(DOMAIN st) -> DOMAIN st] :
        \A i, j \in DOMAIN f : i # j => f[i] # f[j] }

Docs(st, order) ==
    [i \in DOMAIN order |-> st[order[i]]]

\* Mutant of InsertByCreatedAt: sort({createdAt: 1}).
InsertByCreatedAtAscending(sorted, d) ==
    LET k == Cardinality({i \in 1..Len(sorted) : sorted[i].createdAt <= d.createdAt})
    IN SubSeq(sorted, 1, k) \o <<d>> \o SubSeq(sorted, k + 1, Len(sorted))

\* sort({createdAt: -1})
InsertByCreatedAt(sorted, d) ==
    LET k == Cardinality({i \in 1..Len(sorted) : sorted[i].createdAt >= d.createdAt})
    IN SubSeq(sorted, 1, k) \o <<d>> \o SubSeq(sorted, k + 1, Len(sorted))

RECURSIVE SortByCreatedAtDesc(_)
SortByCreatedAtDesc(docs) ==
    IF docs = <<>> THEN <<>>
    ELSE InsertByCreatedAt(SortByCreatedAtDesc(SubSeq(docs, 1, Len(docs) - 1)),
                           docs[Len(docs)])

\* {$unwind: '$tags'}: one entry per element of each document's tags.
RECURSIVE Unwind(_)
Unwind(docs) ==
    IF docs = <<>> THEN <<>>
    ELSE docs[1].tags \o Unwind(Tail(docs))

\* Mutant of Group: the pipeline without its $group stage.
GroupKeepingDuplicates(ts) ==
    ts

\* {$group: {_id: '$tags'}}: one group per distinct value.
RECURSIVE Group(_)
Group(ts) ==
    IF ts = <<>> THEN <<>>
    ELSE LET rest == Group(SubSeq(ts, 1, Len(ts) - 1))
             t == ts[Len(ts)]
         IN IF \E i \in 1..Len(rest) : rest[i] = t THEN rest ELSE Append(rest, t)

\* {$sort: {tag: 1}}
InsertByTag(sorted, t) ==
    LET k == Cardinality({i \in 1..Len(sorted) : Rank(sorted[i]) <= Rank(t)})
    IN SubSeq(sorted, 1, k) \o <<t>> \o SubSeq(sorted, k + 1, Len(sorted))

RECURSIVE SortTags(_)
SortTags(ts) ==
    IF ts = <<>> THEN <<>>
    ELSE InsertByTag(SortTags(SubSeq(ts, 1, Len(ts) - 1)), ts[Len(ts)])

\* The aggregation pipeline of GET /api/tags and the final map(item => item.tag).
UniqueTags(docs) ==
    SortTags(Group(Unwind(docs)))

\* ------------------------------------------------------------------ requests and responses
Request(kind, id, b, f) ==
    [NoReq EXCEPT !.kind = kind, !.id = id, !.body = b, !.file = f]

\* The handler of r is suspended at an await.
Suspended(r) ==
    r \in BagToSet(inflight)

Suspend(r) ==
    inflight (+) SetToBag({r})

\* The handler of r resumes as r2 and suspends again.
Resume(r, r2) ==
    (inflight (-) SetToBag({r})) (+) SetToBag({r2})

Finish(r) ==
    inflight (-) SetToBag({r})

\* The response to request r: its status and message or document(s), with what
\* the handler did on the way: the document its store call found (pre), the
\* uploads it attempted, whether its store call wrote.
Response(r, status, message, out, pre, wrote) ==
    [kind |-> r.kind, status |-> status, message |-> message, id |-> r.id,
     file |-> r.file, body |-> r.body, out |-> out, pre |-> pre,
     existingUrl |-> r.existingUrl, uploads |-> r.uploads, wrote |-> wrote]

\* No response is waiting to leave the server.
Ready ==
    resp.kind = "none"

\* res.status(..).json(..) returned: the response has left the server.
Sent ==
    /\ ~Ready
    /\ resp' = NoResp
    /\ UNCHANGED <<store, nextId, now, inflight, load>>

\* ------------------------------------------------------------------ POST /api/posts
\* Arrival of a create request: the title/content check, then either the
\* await of the upload or, with no file, the construction of the document
\* and the call of save().
PostCreate ==
    /\ Ready
    /\ \E b \in load.bodies, f \in load.files :
        LET r == Request("create", BadId, b, f) IN
        IF Falsy(b.title) \/ Falsy(b.content)
        THEN /\ resp' = Response(r, 400, Required, <<>>, <<>>, FALSE)
             /\ UNCHANGED <<store, nextId, now, inflight, load>>
        ELSE /\ nextId <= MaxPosts
             /\ BagCardinality(inflight) < MaxInFlight
             /\ IF f
                THEN /\ inflight' = Suspend([r EXCEPT !.pc = "upload", !.uploads = 1])
                     /\ UNCHANGED nextId
                ELSE /\ inflight' = Suspend([r EXCEPT !.pc = "save", !.id = nextId,
                                                      !.at = now])
                     /\ nextId' = nextId + 1
             /\ resp' = NoResp
             /\ UNCHANGED <<store, now, load>>

\* The upload resolved: imageUrl = result.secure_url, then the document is
\* constructed and save() called.
CreateUploadOk(r) ==
    /\ Ready /\ Suspended(r) /\ r.kind = "create" /\ r.pc = "upload"
    /\ nextId <= MaxPosts
    /\ inflight' = Resume(r, [r EXCEPT !.pc = "save", !.imageUrl = CdnUrl,
                                       !.id = nextId, !.at = now])
    /\ nextId' = nextId + 1
    /\ resp' = NoResp
    /\ UNCHANGED <<store, now, load>>

\* Mutant of CreateUploadFail: the rejection is swallowed and the post is
\* saved without an image.
CreateUploadFailSavesAnyway(r) ==
    /\ Ready /\ Suspended(r) /\ r.kind = "create" /\ r.pc = "upload"
    /\ nextId <= MaxPosts
    /\ inflight' = Resume(r, [r EXCEPT !.pc = "save", !.id = nextId, !.at = now])
    /\ nextId' = nextId + 1
    /\ resp' = NoResp
    /\ UNCHANGED <<store, now, load>>

\* The upload rejected: the catch block answers 400.
CreateUploadFail(r) ==
    /\ Ready /\ Suspended(r) /\ r.kind = "create" /\ r.pc = "upload"
    /\ resp' = Response(r, 400, CreateFailed, <<>>, <<>>, FALSE)
    /\ inflight' = Finish(r)
    /\ UNCHANGED <<store, nextId, now, load>>

\* save(): the pre-save hook, validation, the insert, and the 201 response.
CreateSave(r) ==
    /\ Ready /\ Suspended(r) /\ r.kind = "create" /\ r.pc = "save"
    /\ LET doc == PreSave(NewPost(r.id, r.body, r.imageUrl, r.at), now)
       IN IF Validate(doc)
          THEN /\ store' = Insert(store, doc)
               /\ resp' = Response(r, 201, "", <<doc>>, <<>>, TRUE)
          ELSE /\ resp' = Response(r, 400, CreateFailed, <<>>, <<>>, FALSE)
               /\ UNCHANGED store
    /\ inflight' = Finish(r)
    /\ UNCHANGED <<nextId, now, load>>

\* ------------------------------------------------------------------ PUT /api/posts/:id
\* Arrival of an update request, after findById resolved: 404 when there is
\* no such document; a string that is no ObjectId makes findById reject and
\* the catch block answer 400.  With no file, imageUrl falls back to the
\* looked-up document's and findByIdAndUpdate is called with new Date().
PutUpdate ==
    /\ Ready
    /\ \E i \in ReqIds :
        IF i = BadId
        THEN /\ resp' = Response(Request("update", i, NoBody, FALSE), 400, UpdateFailed,
                              <<>>, <<>>, FALSE)
             /\ UNCHANGED inflight
        ELSE IF ~Exists(store, i)
        THEN /\ resp' = Response(Request("update", i, NoBody, FALSE), 404, NotFound,
                              <<>>, <<>>, FALSE)
             /\ UNCHANGED inflight
        ELSE \E b \in load.bodies, f \in load.files :
             LET r == Request("update", i, b, f) IN
             /\ BagCardinality(inflight) < MaxInFlight
             /\ inflight' = Suspend(
                    IF f THEN [r EXCEPT !.pc = "upload", !.uploads = 1]
                    ELSE [r EXCEPT !.pc = "write", !.at = now,
                                   !.existingUrl = ExistingUrl(b.imageUrl, store[i]),
                                   !.imageUrl = OrElse(b.imageUrl, store[i].imageUrl)])
             /\ resp' = NoResp
    /\ UNCHANGED <<store, nextId, now, load>>

\* The upload resolved: imageUrl = result.secure_url, then findByIdAndUpdate
\* is called with new Date().
UpdateUploadOk(r) ==
    /\ Ready /\ Suspended(r) /\ r.kind = "update" /\ r.pc = "upload"
    /\ inflight' = Resume(r, [r EXCEPT !.pc = "write", !.imageUrl = CdnUrl,
                                       !.at = now])
    /\ resp' = NoResp
    /\ UNCHANGED <<store, nextId, now, load>>

UpdateUploadFail(r) ==
    /\ Ready /\ Suspended(r) /\ r.kind = "update" /\ r.pc = "upload"
    /\ resp' = Response(r, 400, UpdateFailed, <<>>, <<>>, FALSE)
    /\ inflight' = Finish(r)
    /\ UNCHANGED <<store, nextId, now, load>>

\* findByIdAndUpdate resolved ({new: true}: the document after the update, or
\* null when no document has the id), and the 200 response.
UpdateWrite(r) ==
    /\ Ready /\ Suspended(r) /\ r.kind = "update" /\ r.pc = "write"
    /\ IF Exists(store, r.id)
       THEN LET doc == ApplyUpdate(store[r.id], r.body, r.imageUrl, r.at)
            IN /\ store' = Insert(store, doc)
               /\ resp' = Response(r, 200, "", <<doc>>, <<store[r.id]>>, TRUE)
       ELSE /\ resp' = Response(r, 200, "", <<>>, <<>>, FALSE)
            /\ UNCHANGED store
    /\ inflight' = Finish(r)
    /\ UNCHANGED <<nextId, now, load>>

\* ------------------------------------------------------------------ DELETE /api/posts/:id
\* findByIdAndDelete resolved (or rejected, for a string that is no ObjectId).
DeletePost ==
    /\ Ready
    /\ \E i \in ReqIds :
        LET r == Request("delete", i, NoBody, FALSE) IN
        IF i = BadId
        THEN /\ resp' = Response(r, 500, StoreError, <<>>, <<>>, FALSE)
             /\ UNCHANGED store
        ELSE IF ~Exists(store, i)
        THEN /\ resp' = Response(r, 404, NotFound, <<>>, <<>>, FALSE)
             /\ UNCHANGED store
        ELSE /\ store' = Remove(store, i)
             /\ resp' = Response(r, 200, Deleted, <<>>, <<store[i]>>, TRUE)
    /\ UNCHANGED <<nextId, now, inflight, load>>

\* ------------------------------------------------------------------ GET /api/posts
\* No search parameter: find({}).sort({createdAt: -1}).
GetPosts ==
    /\ Ready
    /\ \E order \in ScanOrders(store) :
        resp' = Response(Request("list", BadId, NoBody, FALSE), 200, "",
                         SortByCreatedAtDesc(Docs(store, order)), <<>>, FALSE)
    /\ UNCHANGED <<store, nextId, now, inflight, load>>

\* ------------------------------------------------------------------ GET /api/tags
GetTags ==
    /\ Ready
    /\ \E order \in ScanOrders(store) :
        resp' = Response(Request("tags", BadId, NoBody, FALSE), 200, "",
                         UniqueTags(Docs(store, order)), <<>>, FALSE)
    /\ UNCHANGED <<store, nextId, now, inflight, load>>

\* ------------------------------------------------------------------ clock
\* A millisecond passes.
Tick ==
    /\ Ready
    /\ load.ticks
    /\ now < MaxTime
    /\ now' = now + 1
    /\ resp' = NoResp
    /\ UNCHANGED <<store, nextId, inflight, load>>

Next ==
    \/ PostCreate
    \/ \E r \in BagToSet(inflight) : CreateUploadOk(r)
    \/ \E r \in BagToSet(inflight) : CreateUploadFail(r)
    \/ \E r \in BagToSet(inflight) : CreateSave(r)
    \/ PutUpdate
    \/ \E r \in BagToSet(inflight) : UpdateUploadOk(r)
    \/ \E r \in BagToSet(inflight) : UpdateUploadFail(r)
    \/ \E r \in BagToSet(inflight) : UpdateWrite(r)
    \/ DeletePost
    \/ GetPosts
    \/ GetTags
    \/ Tick
    \/ Sent

Spec == Init /\ [][Next]_vars


\* ------------------------------------------------------------------ the claims
\* A request body whose title or content is missing or empty.
Blank(b) ==
    b.title \in {Absent, ""} \/ b.content \in {Absent, ""}

\* The response is the document of a successful update.
Updated ==
    resp.kind = "update" /\ resp.status = 200 /\ resp.out # <<>>

\* An update that carried no file and no imageUrl of its own.
KeepsImage ==
    ~resp.file /\ resp.body.imageUrl = Absent

\* C1: a create request whose title or content is missing or empty is
\* answered 400, the step that answers it leaves the store as it was, the
\* handler wrote nothing and attempted no upload, with or without a file.
C1_BlankCreateRejected ==
    [][(resp'.kind = "create" /\ Blank(resp'.body))
         => /\ resp'.status = 400
            /\ store' = store
            /\ ~resp'.wrote
            /\ resp'.uploads = 0]_vars

\* A create with an empty title and a file, rejected while a post is stored.
C1_Witness ==
    /\ resp.kind = "create" /\ Blank(resp.body) /\ resp.file
    /\ resp.status = 400 /\ DOMAIN store # {}

\* C2: every stored post has a present, non-empty title and content.
C2_StoredPostsHaveTitleAndContent ==
    \A i \in DOMAIN store :
        RequiredOk(store[i].title) /\ RequiredOk(store[i].content)

\* C3 as stated: the record a create persists has createdAt = updatedAt, a
\* successful update leaves updatedAt strictly greater than it was and keeps
\* createdAt, and updatedAt >= createdAt in every state.
C3_Original ==
    /\ (resp.kind = "create" /\ resp.status = 201)
         => resp.out[1].createdAt = resp.out[1].updatedAt
    /\ Updated
         => /\ resp.out[1].updatedAt > resp.pre[1].updatedAt
            /\ resp.out[1].createdAt = resp.pre[1].createdAt
    /\ \A i \in DOMAIN store : store[i].updatedAt >= store[i].createdAt

\* C3 as amended: the record a create persists has createdAt <= updatedAt, a
\* successful update keeps createdAt and leaves updatedAt >= createdAt (not
\* necessarily above its previous value), and updatedAt >= createdAt in every
\* state.
C3_Timestamps ==
    /\ (resp.kind = "create" /\ resp.status = 201)
         => resp.out[1].createdAt <= resp.out[1].updatedAt
    /\ Updated
         => /\ resp.out[1].createdAt = resp.pre[1].createdAt
            /\ resp.out[1].updatedAt >= resp.out[1].createdAt
    /\ \A i \in DOMAIN store : store[i].updatedAt >= store[i].createdAt

\* An update that left updatedAt below its previous value.
C3_Witness ==
    /\ Updated
    /\ resp.out[1].updatedAt < resp.pre[1].updatedAt
    /\ resp.out[1].createdAt < resp.out[1].updatedAt

C5_Original ==
    [][(resp'.kind = "delete" /\ resp'.id \notin DOMAIN store)
         => (resp'.status = 404 /\ store' = store)]_vars

\* C5 as amended: a delete whose identifier is an ObjectId that matches no
\* stored post is answered 404, one whose identifier is no ObjectId is
\* answered 500, and both leave the store as it was; a delete whose identifier
\* matches removes that post and leaves every other post as it was.
C5_Delete ==
    [][resp'.kind = "delete"
         => IF resp'.id = BadId
            THEN resp'.status = 500 /\ store' = store
            ELSE IF resp'.id \notin DOMAIN store
            THEN resp'.status = 404 /\ store' = store
            ELSE /\ resp'.status = 200
                 /\ DOMAIN store' = DOMAIN store \ {resp'.id}
                 /\ \A j \in DOMAIN store' : store'[j] = store[j]]_vars

\* A delete of an ObjectId that matches nothing, while a post is stored.
C5_Witness ==
    /\ resp.kind = "delete" /\ resp.status = 404
    /\ resp.id \in PostIds
    /\ DOMAIN store # {}

\* C6: a create or update whose upload failed is answered 400 by a step that
\* leaves the store as it was; the handler wrote nothing and made one upload
\* attempt; and no request ever makes more than one.
C6_UploadFailureAborts ==
    [][/\ (resp'.message \in {CreateFailed, UpdateFailed} /\ resp'.uploads > 0)
          => /\ resp'.status = 400
             /\ store' = store
             /\ ~resp'.wrote
             /\ resp'.uploads = 1
       /\ \A r \in BagToSet(inflight') : r.uploads <= 1
       /\ \A r \in BagToSet(inflight) :
            (r.pc = "upload" /\ ~Suspended(r)')
               => \/ resp'.status = 400 /\ store' = store
                  \/ \E r2 \in BagToSet(inflight') :
                       r2.uploads = 1 /\ r2.imageUrl = CdnUrl]_vars

\* An update of a stored post whose upload failed.
C6_Witness ==
    /\ resp.kind = "update" /\ resp.file /\ resp.status = 400
    /\ resp.uploads = 1
    /\ resp.id \in DOMAIN store

\* C7: tag listing returns the tag values that occur in the tags of a stored
\* post, each once, in ascending order.
C7_TagListing ==
    resp.kind = "tags"
        => /\ \A i, j \in 1..Len(resp.out) :
                i < j => Rank(resp.out[i]) < Rank(resp.out[j])
           /\ {resp.out[i] : i \in 1..Len(resp.out)}
                = UNION {{store[p].tags[k] : k \in 1..Len(store[p].tags)} :
                            p \in DOMAIN store}

\* A tag that is on two posts, twice on each, is listed once.
C7_Witness ==
    /\ resp.kind = "tags"
    /\ resp.out = <<"asia", "temple">>
    /\ Cardinality(DOMAIN store) = 2
    /\ \A p \in DOMAIN store : store[p].tags = <<"temple", "asia", "temple">>

\* C8: a list request with no search parameter returns every stored post once,
\* no post before one with a later createdAt.
C8_ListNewestFirst ==
    resp.kind = "list"
        => /\ Len(resp.out) = Cardinality(DOMAIN store)
           /\ {resp.out[i].id : i \in 1..Len(resp.out)} = DOMAIN store
           /\ \A i \in 1..Len(resp.out) : resp.out[i] = store[resp.out[i].id]
           /\ \A i, j \in 1..Len(resp.out) :
                i < j => resp.out[i].createdAt >= resp.out[j].createdAt

\* A list of two posts created at different times.
C8_Witness ==
    /\ resp.kind = "list"
    /\ Len(resp.out) = 2
    /\ resp.out[1].createdAt > resp.out[2].createdAt

\* C9: an update of an ObjectId that matches no record is answered 404, and a
\* 200 from update carries the updated record of a stored post.
C9_UpdateOfMissingIs404 ==
    (resp.kind = "update" /\ resp.id \in PostIds)
        => /\ resp.id \notin DOMAIN store => resp.status = 404
           /\ resp.status = 200
                => /\ resp.out # <<>>
                   /\ resp.id \in DOMAIN store
                   /\ resp.out[1] = store[resp.id]

\* C10: an update with no file and no imageUrl of its own writes the imageUrl
\* stored at the moment of its write.
C10_NoLostImageUrl ==
    (Updated /\ KeepsImage)
        => resp.out[1].imageUrl = resp.pre[1].imageUrl

====
